---- MODULE Spec2Model ----
(***************************************************************************)
(* The two command adapters around PTT.parse_title:                        *)
(*   parse_title.py        (mode "single")                                 *)
(*   parse_title_batch.py  (mode "batch")                                  *)
(*                                                                         *)
(* A run is one process executing main().  PTT.parse_title is an external  *)
(* callable: a call either returns a Python value or raises an Exception   *)
(* whose str() is a message.  Two runs are modelled so that two            *)
(* invocations of the same adapter can be compared; run 2 starts after     *)
(* run 1 has exited.                                                       *)
(***************************************************************************)
EXTENDS Integers, Sequences, FiniteSets, TLC

\* ---------------------------------------------------------------------
\* Bounds
\* ---------------------------------------------------------------------
MaxArgs == 2

TitleSet == {"t1", "t2"}

Runs == {1, 2}

Modes == {"single", "batch"}

\* ---------------------------------------------------------------------
\* Python values (what parse_title can hand back, what str(e) can be)
\* ---------------------------------------------------------------------
PyNone == <<"none">>

PyStr(s) == <<"str", s>>

\* an object json has no native encoding for: a datetime.date ("date"), a
\* set of two strings ("set")
PyObj(o) == <<"obj", o>>

\* a one-entry mapping {k: v}
PyDict(k, v) == <<"dict", k, v>>

\* the string hash seed of a process (PYTHONHASHSEED, random by default);
\* it fixes the iteration order of a set of strings
HashSeeds == {0, 1}

\* str(o) for the objects of the model, in a process with the given seed
ObjStr(o, seed) ==
    CASE o = "date" -> "1999-01-01"
      [] o = "set"  -> IF seed = 0 THEN "{'en', 'fr'}" ELSE "{'fr', 'en'}"

PlainResult == PyDict(PyStr("year"), PyStr("1999"))

ObjectValueResult == PyDict(PyStr("date"), PyObj("date"))

ObjectKeyResult == PyDict(PyObj("date"), PyStr("x"))

SetValueResult == PyDict(PyStr("languages"), PyObj("set"))

ParserValues == {PlainResult, ObjectValueResult, ObjectKeyResult, SetValueResult, PyNone}

Messages == {"boom", ""}

Return(v) == <<"return", v>>

Raise(m) == <<"raise", PyStr(m)>>

Outcomes == {Return(v) : v \in ParserValues} \cup {Raise(m) : m \in Messages}

\* table entry of a parser that is not bound to one outcome per title
Free == <<"free">>

IsReturn(o) == o[1] = "return"

IsRaise(o) == o[1] = "raise"

\* ---------------------------------------------------------------------
\* json.dumps(value, default=str)
\* ---------------------------------------------------------------------
\* str(v), the fallback `default` json calls on a value it cannot encode
Str(v, seed) == IF v[1] = "obj" THEN ObjStr(v[2], seed) ELSE v[2]

\* dict keys: json accepts str, int, float, bool, None and never calls
\* `default` on a key
KeyOk(k) == k[1] \in {"str", "none"}

KeyText(k) == IF k[1] = "str" THEN k[2] ELSE "null"

RECURSIVE CanEncode(_)
CanEncode(v) ==
    CASE v[1] = "none" -> TRUE
      [] v[1] = "str"  -> TRUE
      [] v[1] = "obj"  -> TRUE
      [] v[1] = "dict" -> KeyOk(v[2]) /\ CanEncode(v[3])

RECURSIVE Dumps(_, _)
Dumps(v, seed) ==
    CASE v[1] = "none" -> <<"null">>
      [] v[1] = "str"  -> <<"string", v[2]>>
      [] v[1] = "obj"  -> <<"string", Str(v, seed)>>
      [] v[1] = "dict" -> <<"object", KeyText(v[2]), Dumps(v[3], seed)>>

\* message of the TypeError json.dumps raises on a key it does not accept
KeyErrorMessage == "keys must be str, int, float, bool or None, not datetime.date"

\* {"error": msg} serialised
ErrorEnvelope(msg) == <<"object", "error", <<"string", msg>>>>

\* what the interpreter prints for an exception nobody caught
Traceback(msg) == <<"traceback", msg>>

\* ---------------------------------------------------------------------
\* Pieces of the two main() functions
\* ---------------------------------------------------------------------
\* len(sys.argv) < 2 of parse_title.py, with args = sys.argv[1:]
SingleNoArgs(args) == Len(args) + 1 < 2

\* len(sys.argv) < 2 of parse_title_batch.py
BatchNoArgsOffByOne(args) == Len(args) + 1 < 1

BatchNoArgs(args) == Len(args) + 1 < 2

BatchUsageMessage == "No titles provided"

SingleUsageMessageCopied == BatchUsageMessage

SingleUsageMessage == "No title provided"

SingleTitleLast(args) == args[Len(args)]

\* title = sys.argv[1]
SingleTitle(args) == args[1]

BatchTitlesSkipFirst(args) == Tail(args)

\* titles = sys.argv[1:]
BatchTitles(args) == args

SuccessItemEmptyError(t, p) == [title |-> t, parsed |-> p, error |-> PyStr("")]

\* lines 23-27 of parse_title_batch.py
SuccessItem(t, p) == [title |-> t, parsed |-> p, error |-> PyNone]

\* lines 29-33 of parse_title_batch.py
FailureItem(t, e, seed) == [title |-> t, parsed |-> PyNone, error |-> PyStr(Str(e, seed))]

ItemOk(it) == CanEncode(it.parsed) /\ CanEncode(it.error)

DumpsItem(it, seed) ==
    [title |-> <<"string", it.title>>, parsed |-> Dumps(it.parsed, seed),
     error |-> Dumps(it.error, seed)]

ResultsOk(rs) == \A k \in 1..Len(rs) : ItemOk(rs[k])

DumpsResults(rs, seed) == <<"array", [k \in 1..Len(rs) |-> DumpsItem(rs[k], seed)]>>

\* sys.exit(1) of the argument check of parse_title.py
SingleUsageExit == 1

\* sys.exit(1) of the argument check of parse_title_batch.py
BatchUsageExit == 1

\* sys.exit(1) of the except handler of parse_title.py
ExceptExit == 1

\* print(json.dumps({"error": str(e)}), file=sys.stderr)
ExceptLine(e, seed) == ErrorEnvelope(Str(e, seed))

\* ---------------------------------------------------------------------
\* State
\* ---------------------------------------------------------------------
VARIABLES
    mode,       \* which adapter both runs execute
    table,      \* the parser: per title one outcome, or Free
    argv,       \* argv[r]: sys.argv[1:] of run r
    hashseed,   \* hashseed[r]: the string hash seed of run r's process
    pc,         \* pc[r]: position of run r in main()
    title,      \* title[r]: the local `title`
    titles,     \* titles[r]: the local `titles` (batch)
    idx,        \* idx[r]: position of `for title in titles` (batch)
    results,    \* results[r]: the local `results` (batch)
    calls,      \* calls[r]: the calls of PTT.parse_title so far, with outcome
    stdout,     \* stdout[r]: lines written to standard output
    stderr,     \* stderr[r]: lines written to standard error
    status,     \* status[r]: exit status, Running before exit
    stdinRead   \* stdinRead[r]: whether run r has read standard input

vars == <<mode, table, argv, hashseed, pc, title, titles, idx, results, calls, stdout, stderr, status, stdinRead>>

Running == -1

Pending == <<"pending">>

ArgLists == UNION {[1..n -> TitleSet] : n \in 0..MaxArgs}

\* what every run starts with
InitLocals ==
    /\ title = [r \in Runs |-> ""]
    /\ titles = [r \in Runs |-> <<>>]
    /\ idx = [r \in Runs |-> 0]
    /\ results = [r \in Runs |-> <<>>]
    /\ calls = [r \in Runs |-> <<>>]
    /\ stdout = [r \in Runs |-> <<>>]
    /\ stderr = [r \in Runs |-> <<>>]
    /\ status = [r \in Runs |-> Running]
    /\ stdinRead = [r \in Runs |-> FALSE]

\* one invocation, any parser behaviour per call
Init ==
    /\ mode \in Modes
    /\ table = [t \in TitleSet |-> Free]
    /\ argv \in {[r \in Runs |-> IF r = 1 THEN a ELSE <<>>] : a \in ArgLists}
    /\ hashseed \in {[r \in Runs |-> IF r = 1 THEN h ELSE 0] : h \in HashSeeds}
    /\ pc = [r \in Runs |-> IF r = 1 THEN "start" ELSE "off"]
    /\ InitLocals

\* two invocations, one after the other, of a deterministic parser
TwinInit ==
    /\ mode \in Modes
    /\ table \in [TitleSet -> Outcomes]
    /\ argv \in [Runs -> ArgLists]
    /\ hashseed \in [Runs -> HashSeeds]
    /\ pc = [r \in Runs |-> "start"]
    /\ InitLocals

\* the parser may answer title t with outcome o
ParserMay(t, o) == table[t] = Free \/ table[t] = o

\* run r's process exists: run 2 is invoked after run 1 has exited
Ready(r) == r = 1 \/ pc[1] = "done"

LastCallDone(r, o) ==
    [calls EXCEPT ![r] = [@ EXCEPT ![Len(@)] = [title |-> @.title, outcome |-> o]]]

\* ---------------------------------------------------------------------
\* parse_title.py
\* ---------------------------------------------------------------------
\* lines 12-14
SingleUsage(r) ==
    /\ mode = "single"
    /\ pc[r] = "start"
    /\ Ready(r)
    /\ SingleNoArgs(argv[r])
    /\ stderr' = [stderr EXCEPT ![r] = Append(@, ErrorEnvelope(SingleUsageMessage))]
    /\ status' = [status EXCEPT ![r] = SingleUsageExit]
    /\ pc' = [pc EXCEPT ![r] = "done"]
    /\ UNCHANGED <<mode, table, argv, hashseed, title, titles, idx, results, calls, stdout, stdinRead>>

\* lines 16-19: bind title, enter the try block, call PTT.parse_title
SingleCall(r) ==
    /\ mode = "single"
    /\ pc[r] = "start"
    /\ Ready(r)
    /\ ~SingleNoArgs(argv[r])
    /\ title' = [title EXCEPT ![r] = SingleTitle(argv[r])]
    /\ calls' = [calls EXCEPT ![r] = Append(@, [title |-> SingleTitle(argv[r]), outcome |-> Pending])]
    /\ pc' = [pc EXCEPT ![r] = "parsing"]
    /\ UNCHANGED <<mode, table, argv, hashseed, titles, idx, results, stdout, stderr, status, stdinRead>>

\* lines 19-24: parse_title returns result; json.dumps(result, default=str)
\* is still inside the try block, so its TypeError lands in the handler
SingleReturn(r) ==
    /\ mode = "single"
    /\ pc[r] = "parsing"
    /\ \E v \in ParserValues :
         /\ ParserMay(title[r], Return(v))
         /\ calls' = LastCallDone(r, Return(v))
         /\ IF CanEncode(v)
              THEN /\ stdout' = [stdout EXCEPT ![r] = Append(@, Dumps(v, hashseed[r]))]
                   /\ status' = [status EXCEPT ![r] = 0]
                   /\ UNCHANGED stderr
              ELSE /\ stderr' = [stderr EXCEPT ![r] = Append(@, ExceptLine(PyStr(KeyErrorMessage), hashseed[r]))]
                   /\ status' = [status EXCEPT ![r] = ExceptExit]
                   /\ UNCHANGED stdout
    /\ pc' = [pc EXCEPT ![r] = "done"]
    /\ UNCHANGED <<mode, table, argv, hashseed, title, titles, idx, results, stdinRead>>

\* the handler with file=sys.stderr left out
SingleRaiseToStdout(r) ==
    /\ mode = "single"
    /\ pc[r] = "parsing"
    /\ \E m \in Messages :
         /\ ParserMay(title[r], Raise(m))
         /\ calls' = LastCallDone(r, Raise(m))
         /\ stdout' = [stdout EXCEPT ![r] = Append(@, ExceptLine(PyStr(m), hashseed[r]))]
    /\ status' = [status EXCEPT ![r] = ExceptExit]
    /\ pc' = [pc EXCEPT ![r] = "done"]
    /\ UNCHANGED <<mode, table, argv, hashseed, title, titles, idx, results, stderr, stdinRead>>

\* lines 19, 22-24: parse_title raises e
SingleRaise(r) ==
    /\ mode = "single"
    /\ pc[r] = "parsing"
    /\ \E m \in Messages :
         /\ ParserMay(title[r], Raise(m))
         /\ calls' = LastCallDone(r, Raise(m))
         /\ stderr' = [stderr EXCEPT ![r] = Append(@, ExceptLine(PyStr(m), hashseed[r]))]
    /\ status' = [status EXCEPT ![r] = ExceptExit]
    /\ pc' = [pc EXCEPT ![r] = "done"]
    /\ UNCHANGED <<mode, table, argv, hashseed, title, titles, idx, results, stdout, stdinRead>>

\* ---------------------------------------------------------------------
\* parse_title_batch.py
\* ---------------------------------------------------------------------
\* lines 12-14
BatchUsage(r) ==
    /\ mode = "batch"
    /\ pc[r] = "start"
    /\ Ready(r)
    /\ BatchNoArgs(argv[r])
    /\ stderr' = [stderr EXCEPT ![r] = Append(@, ErrorEnvelope(BatchUsageMessage))]
    /\ status' = [status EXCEPT ![r] = BatchUsageExit]
    /\ pc' = [pc EXCEPT ![r] = "done"]
    /\ UNCHANGED <<mode, table, argv, hashseed, title, titles, idx, results, calls, stdout, stdinRead>>

\* lines 17-19
BatchStart(r) ==
    /\ mode = "batch"
    /\ pc[r] = "start"
    /\ Ready(r)
    /\ ~BatchNoArgs(argv[r])
    /\ titles' = [titles EXCEPT ![r] = BatchTitles(argv[r])]
    /\ results' = [results EXCEPT ![r] = <<>>]
    /\ idx' = [idx EXCEPT ![r] = 1]
    /\ pc' = [pc EXCEPT ![r] = "loop"]
    /\ UNCHANGED <<mode, table, argv, hashseed, title, calls, stdout, stderr, status, stdinRead>>

\* lines 20-22: next title of the loop, call PTT.parse_title
BatchCall(r) ==
    /\ mode = "batch"
    /\ pc[r] = "loop"
    /\ idx[r] <= Len(titles[r])
    /\ title' = [title EXCEPT ![r] = titles[r][idx[r]]]
    /\ calls' = [calls EXCEPT ![r] = Append(@, [title |-> titles[r][idx[r]], outcome |-> Pending])]
    /\ pc' = [pc EXCEPT ![r] = "parsing"]
    /\ UNCHANGED <<mode, table, argv, hashseed, titles, idx, results, stdout, stderr, status, stdinRead>>

\* lines 22-27: parse_title returns parsed
BatchReturn(r) ==
    /\ mode = "batch"
    /\ pc[r] = "parsing"
    /\ \E v \in ParserValues :
         /\ ParserMay(title[r], Return(v))
         /\ calls' = LastCallDone(r, Return(v))
         /\ results' = [results EXCEPT ![r] = Append(@, SuccessItem(title[r], v))]
    /\ idx' = [idx EXCEPT ![r] = @ + 1]
    /\ pc' = [pc EXCEPT ![r] = "loop"]
    /\ UNCHANGED <<mode, table, argv, hashseed, title, titles, stdout, stderr, status, stdinRead>>

\* the handler leaving the loop after the first failure
BatchRaiseBreaks(r) ==
    /\ mode = "batch"
    /\ pc[r] = "parsing"
    /\ \E m \in Messages :
         /\ ParserMay(title[r], Raise(m))
         /\ calls' = LastCallDone(r, Raise(m))
         /\ results' = [results EXCEPT ![r] = Append(@, FailureItem(title[r], PyStr(m), hashseed[r]))]
    /\ idx' = [idx EXCEPT ![r] = Len(titles[r]) + 1]
    /\ pc' = [pc EXCEPT ![r] = "loop"]
    /\ UNCHANGED <<mode, table, argv, hashseed, title, titles, stdout, stderr, status, stdinRead>>

\* lines 22, 28-33: parse_title raises e
BatchRaise(r) ==
    /\ mode = "batch"
    /\ pc[r] = "parsing"
    /\ \E m \in Messages :
         /\ ParserMay(title[r], Raise(m))
         /\ calls' = LastCallDone(r, Raise(m))
         /\ results' = [results EXCEPT ![r] = Append(@, FailureItem(title[r], PyStr(m), hashseed[r]))]
    /\ idx' = [idx EXCEPT ![r] = @ + 1]
    /\ pc' = [pc EXCEPT ![r] = "loop"]
    /\ UNCHANGED <<mode, table, argv, hashseed, title, titles, stdout, stderr, status, stdinRead>>

\* line 36, after the loop and outside any try block: a TypeError of
\* json.dumps is caught by nobody; the interpreter prints the traceback
\* to standard error and exits with status 1
BatchDump(r) ==
    /\ mode = "batch"
    /\ pc[r] = "loop"
    /\ idx[r] > Len(titles[r])
    /\ IF ResultsOk(results[r])
         THEN /\ stdout' = [stdout EXCEPT ![r] = Append(@, DumpsResults(results[r], hashseed[r]))]
              /\ status' = [status EXCEPT ![r] = 0]
              /\ UNCHANGED stderr
         ELSE /\ stderr' = [stderr EXCEPT ![r] = Append(@, Traceback(KeyErrorMessage))]
              /\ status' = [status EXCEPT ![r] = 1]
              /\ UNCHANGED stdout
    /\ pc' = [pc EXCEPT ![r] = "done"]
    /\ UNCHANGED <<mode, table, argv, hashseed, title, titles, idx, results, calls, stdinRead>>

Next ==
    \E r \in Runs :
        \/ SingleUsage(r)
        \/ BatchUsage(r)
        \/ SingleCall(r)
        \/ SingleReturn(r)
        \/ SingleRaise(r)
        \/ BatchStart(r)
        \/ BatchCall(r)
        \/ BatchReturn(r)
        \/ BatchRaise(r)
        \/ BatchDump(r)

Spec == Init /\ [][Next]_vars

TwinSpec == TwinInit /\ [][Next]_vars

\* ---------------------------------------------------------------------
\* Properties
\* ---------------------------------------------------------------------
Done(r) == pc[r] = "done"

\* the entries of the JSON array run r wrote to standard output
Emitted(r) == stdout[r][1][2]

WroteArray(r) == mode = "batch" /\ stdout[r] # <<>>

JsonNull == <<"null">>

Returned(c) == c.outcome[1] = "return"

Raised(c) == c.outcome[1] = "raise"

\* C1: the array the batch adapter writes has one entry per input title,
\* and entry i carries title i unchanged.
C1_LengthAndOrder ==
    \A r \in Runs :
        WroteArray(r) =>
            /\ Len(stdout[r]) = 1
            /\ Len(Emitted(r)) = Len(argv[r])
            /\ \A i \in 1..Len(argv[r]) : Emitted(r)[i].title = <<"string", argv[r][i]>>

\* an array of two entries for two different titles, the first a failure,
\* the second a success
C1_Witness ==
    \E r \in Runs :
        /\ WroteArray(r)
        /\ Len(argv[r]) = 2
        /\ argv[r][1] # argv[r][2]
        /\ Emitted(r)[1].error # JsonNull
        /\ Emitted(r)[2].error = JsonNull

\* C2 as claimed: in every emitted BatchItem exactly one of parsed and
\* error is non-null.
C2_ExactlyOneNonNull ==
    \A r \in Runs :
        WroteArray(r) =>
            \A i \in 1..Len(Emitted(r)) :
                (Emitted(r)[i].parsed # JsonNull) # (Emitted(r)[i].error # JsonNull)

\* C2 amended: in every emitted BatchItem parsed and error are never both
\* non-null; error is null exactly when the parser call returned, and parsed
\* is non-null exactly when the call returned a value other than None.
C2_AtMostOneNonNull ==
    \A r \in Runs :
        WroteArray(r) =>
            /\ Len(calls[r]) = Len(Emitted(r))
            /\ \A i \in 1..Len(Emitted(r)) :
                 /\ ~(Emitted(r)[i].parsed # JsonNull /\ Emitted(r)[i].error # JsonNull)
                 /\ (Emitted(r)[i].error = JsonNull) <=> Returned(calls[r][i])
                 /\ (Emitted(r)[i].parsed # JsonNull) <=>
                        (Returned(calls[r][i]) /\ calls[r][i].outcome[2] # PyNone)

\* an array holding a success with a non-null result and a failure
C2_Witness ==
    \E r \in Runs :
        /\ WroteArray(r)
        /\ Len(Emitted(r)) = 2
        /\ Emitted(r)[1].parsed # JsonNull /\ Emitted(r)[1].error = JsonNull
        /\ Emitted(r)[2].parsed = JsonNull /\ Emitted(r)[2].error # JsonNull

\* C3: given at least one title, the batch adapter ends with the array on
\* standard output and status 0, whatever the parser returned or raised.
C3_AlwaysArrayAndZero ==
    \A r \in Runs :
        (mode = "batch" /\ Done(r) /\ argv[r] # <<>>) =>
            /\ status[r] = 0
            /\ Len(stdout[r]) = 1
            /\ stderr[r] = <<>>

\* C4: a finished run of the single-title adapter wrote exactly one line to
\* exactly one stream, exits 0 exactly when that line went to standard
\* output, and a parse that succeeded has its result on standard output.
C4_OneLineOneStream ==
    \A r \in Runs :
        (mode = "single" /\ Done(r)) =>
            /\ Len(stdout[r]) + Len(stderr[r]) = 1
            /\ (status[r] = 0) <=> (Len(stdout[r]) = 1)
            /\ status[r] \in {0, 1}
            /\ (calls[r] # <<>> /\ Returned(calls[r][1])) =>
                   (status[r] = 0 /\ Len(stdout[r]) = 1 /\ stderr[r] = <<>>)
            /\ ~(calls[r] # <<>> /\ Returned(calls[r][1])) =>
                   (status[r] # 0 /\ Len(stderr[r]) = 1 /\ stderr[r][1][1] = "object"
                    /\ stdout[r] = <<>>)

\* C5: when the parser raises, the single-title adapter writes
\* {"error": str(e)} to standard error, nothing to standard output, and
\* exits with status 1.
C5_ParseFailureFatal ==
    \A r \in Runs :
        (mode = "single" /\ calls[r] # <<>> /\ Raised(calls[r][1])) =>
            /\ Done(r)
            /\ stderr[r] = << <<"object", "error", <<"string", calls[r][1].outcome[2][2]>>>> >>
            /\ stdout[r] = <<>>
            /\ status[r] = 1

C5_Witness ==
    \E r \in Runs :
        /\ mode = "single"
        /\ calls[r] # <<>>
        /\ Raised(calls[r][1])
        /\ calls[r][1].outcome[2][2] = "boom"
        /\ Done(r)

C7_SingleUsageError ==
    \A r \in Runs :
        (mode = "single" /\ argv[r] = <<>>) =>
            /\ calls[r] = <<>>
            /\ stdout[r] = <<>>
            /\ pc[r] \in {"off", "start", "done"}
            /\ Done(r) =>
                 /\ stderr[r] = << <<"object", "error", <<"string", "No title provided">>>> >>
                 /\ status[r] = 1

C7_Witness == \E r \in Runs : mode = "single" /\ argv[r] = <<>> /\ Done(r)

\* C8: in both adapters a parse that succeeded is never turned into an error
\* line, a non-zero status or an empty standard output by the shape of the
\* value returned, and a value json cannot encode appears as its str().
C8_NeverSerializationFailure ==
    \A r \in Runs :
        (Done(r) /\ calls[r] # <<>> /\ \A k \in 1..Len(calls[r]) : Returned(calls[r][k])) =>
            /\ status[r] = 0
            /\ Len(stdout[r]) = 1
            /\ stderr[r] = <<>>
            /\ (mode = "single" /\ calls[r][1].outcome[2] = ObjectValueResult) =>
                   stdout[r] = << <<"object", "date", <<"string", "1999-01-01">>>> >>

\* C9 as claimed: two invocations of the same adapter with a deterministic parser
\* agree on standard output, standard error and exit status when they get
\* the same arguments; for the single-title adapter it is enough that they
\* get the same first argument.
SameInput ==
    IF mode = "batch"
        THEN argv[1] = argv[2]
        ELSE \/ argv[1] = <<>> /\ argv[2] = <<>>
             \/ argv[1] # <<>> /\ argv[2] # <<>> /\ argv[1][1] = argv[2][1]

SameOutput ==
    /\ stdout[1] = stdout[2]
    /\ stderr[1] = stderr[2]
    /\ status[1] = status[2]

C9_Deterministic == (Done(1) /\ Done(2) /\ SameInput) => SameOutput

\* no call returned a value whose str() depends on the process
SeedFree ==
    \A r \in Runs : \A k \in 1..Len(calls[r]) :
        Returned(calls[r][k]) => calls[r][k].outcome[2] # SetValueResult

\* C9 amended: two invocations of the same adapter with a deterministic
\* parser and the same arguments (single-title adapter: the same first
\* argument) agree on standard output, standard error and exit status,
\* provided no value serialised through the str() fallback has a string
\* form that varies between processes.
C9_DeterministicSeedFree == (Done(1) /\ Done(2) /\ SameInput /\ SeedFree) => SameOutput

\* two finished single-title runs with the same title and different
\* argument lists, the parse successful
C9_Witness ==
    /\ mode = "single"
    /\ Done(1) /\ Done(2)
    /\ SameInput
    /\ argv[1] # argv[2]
    /\ hashseed[1] # hashseed[2]
    /\ SeedFree
    /\ calls[1] # <<>>
    /\ calls[1][1].outcome = Return(ObjectValueResult)
    /\ stdout[1] # <<>>

\* C10: the batch adapter calls the parser once per title in input order,
\* each call finished before the next begins, a failure neither repeated
\* nor ending the loop, and nothing on standard output before the last
\* title is done.
C10_CallsFollowTitles ==
    \A r \in Runs :
        mode = "batch" =>
            /\ Len(calls[r]) <= Len(argv[r])
            /\ \A k \in 1..Len(calls[r]) :
                 /\ calls[r][k].title = argv[r][k]
                 /\ k < Len(calls[r]) => calls[r][k].outcome # Pending
            /\ (stdout[r] # <<>> \/ Done(r)) =>
                 /\ Len(calls[r]) = Len(argv[r])
                 /\ \A k \in 1..Len(calls[r]) : calls[r][k].outcome # Pending

\* a finished batch whose first title failed and whose second was parsed
C10_Witness ==
    \E r \in Runs :
        /\ mode = "batch"
        /\ Done(r)
        /\ Len(calls[r]) = 2
        /\ Raised(calls[r][1])
        /\ Returned(calls[r][2])
        /\ stdout[r] # <<>>

====
